---- MODULE Spec2Model ----
(***************************************************************************)
(* Model of streamlit_app.py: one render pass of the dashboard script.     *)
(* The script is a straight line: page header, load_data(), then either    *)
(* the panels (preview, info, statistics, currency, extraction, charts     *)
(* 1-5) or the "No data loaded" branch.  The state is the input file, the  *)
(* shared table df, the list of elements emitted on the page, the script   *)
(* position pc and the exception that ended the script, if any.            *)
(*                                                                         *)
(* Library calls are modelled by their documented behaviour: read_csv with *)
(* on_bad_lines='skip', json.loads, pd.to_datetime, sort_values, dropna    *)
(* and resample('D').sum().  Plotting calls are modelled as total: given   *)
(* the columns they name they emit one chart.  Amounts are integers.       *)
(***************************************************************************)
EXTENDS Integers, Sequences, FiniteSets

VARIABLES file, complete, pc, df, out, exc

vars == <<file, complete, pc, df, out, exc>>

(***************************************************************************)
(* Bounds of the model.                                                    *)
(***************************************************************************)
MaxRows == 2

(***************************************************************************)
(* Column names used by the script.                                        *)
(***************************************************************************)
TRANSACTION_AMOUNT == "TRANSACTION_AMOUNT"
CURRENCY_CODE == "CURRENCY_CODE"
MCC == "MCC"
POST_TRANSACTION_ACCOUNT_BALANCES == "POST_TRANSACTION_ACCOUNT_BALANCES"
TIMESTAMP == "TIMESTAMP"
total_balance == "total_balance"

\* The documented column set of the input file, in file order.
DocCols == <<TRANSACTION_AMOUNT, CURRENCY_CODE, MCC,
             POST_TRANSACTION_ACCOUNT_BALANCES, TIMESTAMP>>

Range(s) == {s[i] : i \in DOMAIN s}

Min(a, b) == IF a < b THEN a ELSE b

(***************************************************************************)
(* Cells of the table.  Every cell is a record of the same shape so that   *)
(* any two cells can be compared: t is the Python type of the value.       *)
(***************************************************************************)
NaN == [t |-> "nan", n |-> 0, s |-> ""]
NoneVal == [t |-> "none", n |-> 0, s |-> ""]
NaT == [t |-> "nat", n |-> 0, s |-> ""]
Num(k) == [t |-> "num", n |-> k, s |-> ""]
Str(x) == [t |-> "str", n |-> 0, s |-> x]
Datetime(h) == [t |-> "datetime", n |-> h, s |-> ""]

\* pandas' notion of a missing value (isna).
IsNA(c) == c.t \in {"nan", "none", "nat"}

(***************************************************************************)
(* Texts that occur in the fields of the input file.                       *)
(***************************************************************************)
\* Numeric literals and the numbers read_csv reads them as.
NumericText == [x \in {"5", "10", "5411", "5812", "7"} |->
                  CASE x = "5" -> 5
                    [] x = "10" -> 10
                    [] x = "5411" -> 5411
                    [] x = "5812" -> 5812
                    [] x = "7" -> 7]

JsonBalance == "{\"total_balance\": 42}"
JsonNoKey == "{\"available\": 7}"
JsonList == "[1]"
JsonNumber == "7"
JsonMalformed == "not json"
\* An array nested deeper than the interpreter's recursion limit.
JsonDeep == "[[[[ ...200000 levels"

\* Timestamp texts, all of one format, and the hour since 2024-01-01 00:00
\* each one denotes.
TimestampText == [x \in {"2024-01-01 08:00", "2024-01-01 20:00",
                         "2024-01-03 08:00"} |->
                    CASE x = "2024-01-01 08:00" -> 8
                      [] x = "2024-01-01 20:00" -> 20
                      [] x = "2024-01-03 08:00" -> 56]
TimestampBad == "yesterday-ish"

HoursPerDay == 24

(***************************************************************************)
(* The input file: what the file system and the parser make of the fixed   *)
(* path, the header line and the data lines (each a sequence of fields).   *)
(***************************************************************************)
\* status "ok": the file parses.  The others are the ways read_csv fails:
\* the exception it raises for each.
ReadCsvRaises == [x \in {"missing", "parser_error", "empty", "undecodable",
                         "unreadable"} |->
                    CASE x = "missing" -> "FileNotFoundError"
                      [] x = "parser_error" -> "ParserError"
                      [] x = "empty" -> "EmptyDataError"
                      [] x = "undecodable" -> "UnicodeDecodeError"
                      [] x = "unreadable" -> "PermissionError"]

FailedFile(status) == [status |-> status, header |-> <<>>, lines |-> <<>>]

BaseRow == [c \in Range(DocCols) |->
              CASE c = TRANSACTION_AMOUNT -> "10"
                [] c = CURRENCY_CODE -> "USD"
                [] c = MCC -> "5411"
                [] c = POST_TRANSACTION_ACCOUNT_BALANCES -> JsonBalance
                [] c = TIMESTAMP -> "2024-01-01 08:00"]

With(row, c, v) == [row EXCEPT ![c] = v]

\* Rows of the file: the base row changed in its amount, its timestamp, its
\* balances blob, its currency or its merchant code.
SampleRows ==
       {With(BaseRow, TRANSACTION_AMOUNT, a) : a \in {"10", "5", ""}}
  \cup {With(With(BaseRow, TRANSACTION_AMOUNT, "5"), TIMESTAMP, t) :
          t \in {"", "2024-01-01 20:00", "2024-01-03 08:00", TimestampBad}}
  \cup {With(BaseRow, POST_TRANSACTION_ACCOUNT_BALANCES, j) :
          j \in {"", JsonNoKey, JsonList, JsonNumber, JsonMalformed, JsonDeep}}
  \cup {With(BaseRow, CURRENCY_CODE, "EUR"), With(BaseRow, MCC, "5812")}

LineOf(row) == [i \in 1..Len(DocCols) |-> row[DocCols[i]]]

\* Data lines: well-formed ones, two with too few fields and one with too
\* many.
SampleLines ==
       {LineOf(r) : r \in SampleRows}
  \cup {SubSeq(LineOf(BaseRow), 1, Len(DocCols) - 1),
        SubSeq(LineOf(BaseRow), 1, 1),
        Append(LineOf(BaseRow), "extra")}

SeqsUpTo(S, n) == UNION {[1..k -> S] : k \in 0..n}

\* Files with the complete documented header.
CompleteFiles == {[status |-> "ok", header |-> DocCols, lines |-> ls] :
                    ls \in SeqsUpTo(SampleLines, MaxRows)}

\* s without its element at position i (s itself when it has none there).
RemoveAt(s, i) ==
  IF i \in 1..Len(s) THEN SubSeq(s, 1, i - 1) \o SubSeq(s, i + 1, Len(s))
  ELSE s

PositionOf(header, c) ==
  IF c \in Range(header) THEN CHOOSE i \in DOMAIN header : header[i] = c
  ELSE 0

\* The file f with column c (header entry and that field of every line)
\* removed; "" removes nothing.
DropColumn(f, c) ==
  LET i == PositionOf(f.header, c)
  IN [status |-> f.status,
      header |-> RemoveAt(f.header, i),
      lines |-> [k \in DOMAIN f.lines |-> RemoveAt(f.lines[k], i)]]

Removals == {""} \cup Range(DocCols)

(***************************************************************************)
(* The table (a DataFrame) and the absent result None.                     *)
(***************************************************************************)
NoneDf == [isNone |-> TRUE, columns |-> <<>>, rows |-> <<>>]

Table(columns, rows) == [isNone |-> FALSE, columns |-> columns, rows |-> rows]

Column(t, c) == [i \in DOMAIN t.rows |-> t.rows[i][c]]

HasColumn(t, c) == c \in Range(t.columns)

(***************************************************************************)
(* pd.read_csv(path, on_bad_lines='skip', engine='python'): blank lines    *)
(* are ignored, lines with more fields than the header are bad lines and   *)
(* are skipped, lines with fewer fields are kept and padded with missing   *)
(* values.  A column is numeric when all its non-empty fields are numeric. *)
(***************************************************************************)
KeptLine(header, line) == Len(line) >= 1 /\ Len(line) <= Len(header)

Field(line, i) == IF i <= Len(line) THEN line[i] ELSE ""

read_csv(f) ==
  LET kept == SelectSeq(f.lines, LAMBDA l : KeptLine(f.header, l))
      numeric == {i \in DOMAIN f.header :
                    \A k \in DOMAIN kept :
                       Field(kept[k], i) \in DOMAIN NumericText \cup {""}}
      cell(x, i) == IF x = "" THEN NaN
                    ELSE IF i \in numeric THEN Num(NumericText[x])
                    ELSE Str(x)
  IN Table(f.header,
           [k \in DOMAIN kept |->
              [c \in Range(f.header) |->
                 LET i == PositionOf(f.header, c)
                 IN cell(Field(kept[k], i), i)]])

(***************************************************************************)
(* Elements emitted on the page.                                           *)
(***************************************************************************)
El(kind, panel, text, data) ==
  [kind |-> kind, panel |-> panel, text |-> text, data |-> data]

\* A variant of load_data that answers a missing file with an empty table.
load_data_EmptyTable(f) ==
  IF f.status = "ok"
  THEN [exc |-> "", ret |-> read_csv(f), emits |-> <<>>]
  ELSE [exc |-> "", ret |-> Table(<<>>, <<>>),
        emits |-> <<El("error", "load_data", "CSV file not found.", <<>>)>>]

\* load_data(): the table, or None with a message; an exception other than
\* the two it catches leaves the function.
load_data(f) ==
  IF f.status = "ok"
  THEN [exc |-> "", ret |-> read_csv(f), emits |-> <<>>]
  ELSE LET e == ReadCsvRaises[f.status]
       IN IF e = "FileNotFoundError"
          THEN [exc |-> "", ret |-> NoneDf,
                emits |-> <<El("error", "load_data", "CSV file not found.", <<>>)>>]
          ELSE IF e = "ParserError"
          THEN [exc |-> "", ret |-> NoneDf,
                emits |-> <<El("error", "load_data", "ParserError: ...", <<>>)>>]
          ELSE [exc |-> e, ret |-> NoneDf, emits |-> <<>>]

(***************************************************************************)
(* The render pass.                                                        *)
(***************************************************************************)
Init ==
  /\ \/ \E f \in CompleteFiles, c \in Removals :
          /\ complete = f
          /\ file = DropColumn(f, c)
     \/ \E s \in DOMAIN ReadCsvRaises :
          /\ complete = FailedFile(s)
          /\ file = FailedFile(s)
  /\ pc = "start"
  /\ df = NoneDf
  /\ out = <<>>
  /\ exc = ""

\* st.title and st.write at the top of the script.
PageHeader ==
  /\ pc = "start"
  /\ out' = out \o <<El("title", "page", "LOL Dataset Key Visualizations", <<>>),
                     El("write", "page", "This app displays key visualizations", <<>>)>>
  /\ pc' = "load"
  /\ UNCHANGED <<file, complete, df, exc>>

\* df = load_data(), then the test "df is not None".
LoadData ==
  /\ pc = "load"
  /\ LET r == load_data(file)
     IN IF r.exc # ""
        THEN /\ pc' = "crashed"
             /\ exc' = r.exc
             /\ UNCHANGED <<df, out>>
        ELSE /\ df' = r.ret
             /\ out' = out \o r.emits
             /\ pc' = IF r.ret.isNone THEN "nodata" ELSE "preview"
             /\ exc' = exc
  /\ UNCHANGED <<file, complete>>

\* A variant of the else branch that reports nothing.
NoDataEmits_Silent == <<>>

\* What the else branch of "df is not None" emits.
NoDataEmits ==
  <<El("error", "nodata",
       "No data loaded. Please ensure the CSV file exists and is formatted correctly.",
       <<>>)>>

NoDataLoaded ==
  /\ pc = "nodata"
  /\ out' = out \o NoDataEmits
  /\ pc' = "done"
  /\ UNCHANGED <<file, complete, df, exc>>

(***************************************************************************)
(* Series helpers.                                                         *)
(***************************************************************************)
\* Series.dropna()
dropna(s) == SelectSeq(s, LAMBDA c : ~IsNA(c))

\* DataFrame.head(): the first five rows.
HeadRows == 5

\* head(10) of chart 3.
TopN == 10

head(s, n) == SubSeq(s, 1, Min(n, Len(s)))

\* Series.unique(): the distinct values in order of first appearance.
RECURSIVE unique(_)
unique(s) ==
  IF s = <<>> THEN <<>>
  ELSE LET r == unique(SubSeq(s, 1, Len(s) - 1))
           x == s[Len(s)]
       IN IF x \in Range(r) THEN r ELSE Append(r, x)

CountOf(s, x) == Cardinality({i \in DOMAIN s : s[i] = x})

\* p inserted into the sequence r, which is ordered by descending count,
\* after every entry whose count is not smaller.
RECURSIVE InsertByCount(_, _)
InsertByCount(r, p) ==
  IF r = <<>> THEN <<p>>
  ELSE IF r[1].count >= p.count THEN <<r[1]>> \o InsertByCount(Tail(r), p)
  ELSE <<p>> \o r

RECURSIVE SortByCount(_)
SortByCount(ps) ==
  IF ps = <<>> THEN <<>>
  ELSE InsertByCount(SortByCount(SubSeq(ps, 1, Len(ps) - 1)), ps[Len(ps)])

\* Series.value_counts(): the non-missing values with their frequencies,
\* most frequent first.
value_counts(s) ==
  LET vals == unique(dropna(s))
  IN SortByCount([i \in DOMAIN vals |->
                    [value |-> vals[i], count |-> CountOf(s, vals[i])]])

NonNull(t, c) == Len(dropna(Column(t, c)))

IsNumericColumn(t, c) ==
  /\ t.rows # <<>>
  /\ \A i \in DOMAIN t.rows : t.rows[i][c].t \in {"num", "nan"}

(***************************************************************************)
(* The presenter.                                                          *)
(***************************************************************************)
PreviewEmits(t) ==
  <<El("subheader", "preview", "Data Preview", <<>>),
    El("dataframe", "preview", "", head(t.rows, HeadRows)),
    El("write", "preview", "**Shape of the DataFrame:**",
       <<Len(t.rows), Len(t.columns)>>)>>

\* df.info(): per column the number of non-null cells.
InfoEmits(t) ==
  <<El("subheader", "info", "DataFrame Info", <<>>),
    El("text", "info", "", [c \in Range(t.columns) |-> NonNull(t, c)])>>

\* df.describe(): of its rows only "count" is modelled, over the numeric
\* columns (over all columns when none is numeric).
DescribeEmits(t) ==
  LET num == {c \in Range(t.columns) : IsNumericColumn(t, c)}
      described == IF num = {} THEN Range(t.columns) ELSE num
  IN <<El("subheader", "describe", "Descriptive Statistics (Numerical Columns)", <<>>),
       El("write", "describe", "", [c \in described |-> NonNull(t, c)])>>

\* A variant of the currency panel that skips silently.
CurrencyEmits_NoWarning(t) ==
  IF HasColumn(t, CURRENCY_CODE)
  THEN <<El("subheader", "currency", "Unique Values and Frequency in 'CURRENCY_CODE'", <<>>),
         El("write", "currency", "Unique values:", unique(Column(t, CURRENCY_CODE))),
         El("write", "currency", "Value counts:", <<>>),
         El("write", "currency", "", value_counts(Column(t, CURRENCY_CODE)))>>
  ELSE <<>>

CurrencyEmits(t) ==
  IF HasColumn(t, CURRENCY_CODE)
  THEN <<El("subheader", "currency", "Unique Values and Frequency in 'CURRENCY_CODE'", <<>>),
         El("write", "currency", "Unique values:", unique(Column(t, CURRENCY_CODE))),
         El("write", "currency", "Value counts:", <<>>),
         El("write", "currency", "", value_counts(Column(t, CURRENCY_CODE)))>>
  ELSE <<El("warning", "currency", "Column 'CURRENCY_CODE' not found.", <<>>)>>

Preview ==
  /\ pc = "preview"
  /\ out' = out \o PreviewEmits(df)
  /\ pc' = "info"
  /\ UNCHANGED <<file, complete, df, exc>>

Info ==
  /\ pc = "info"
  /\ out' = out \o InfoEmits(df)
  /\ pc' = "describe"
  /\ UNCHANGED <<file, complete, df, exc>>

Describe ==
  /\ pc = "describe"
  /\ out' = out \o DescribeEmits(df)
  /\ pc' = "currency"
  /\ UNCHANGED <<file, complete, df, exc>>

Currency ==
  /\ pc = "currency"
  /\ out' = out \o CurrencyEmits(df)
  /\ pc' = "extraction"
  /\ UNCHANGED <<file, complete, df, exc>>

(***************************************************************************)
(* The JSON field extractor.                                               *)
(***************************************************************************)
JsonValue(type, items) == [type |-> type, items |-> items]

\* json.loads(value): the decoded value, or the exception raised.  A value
\* that is not text raises TypeError.  The decoder recurses once per level
\* of nesting, so a text nested deeper than the recursion limit raises
\* RecursionError, which is no JSONDecodeError.
json_loads(value) ==
  IF value.t # "str" THEN [exc |-> "TypeError", val |-> JsonValue("none", <<>>)]
  ELSE CASE value.s = JsonBalance ->
              [exc |-> "", val |-> JsonValue("dict", [k \in {"total_balance"} |-> Num(42)])]
         [] value.s = JsonNoKey ->
              [exc |-> "", val |-> JsonValue("dict", [k \in {"available"} |-> Num(7)])]
         [] value.s = JsonList ->
              [exc |-> "", val |-> JsonValue("list", <<Num(1)>>)]
         [] value.s = JsonNumber ->
              [exc |-> "", val |-> JsonValue("int", <<>>)]
         [] value.s = JsonDeep ->
              [exc |-> "RecursionError", val |-> JsonValue("none", <<>>)]
         [] OTHER ->
              [exc |-> "JSONDecodeError", val |-> JsonValue("none", <<>>)]

\* json_data.get(key): only a dict has the method.
dict_get(val, key) ==
  IF val.type # "dict" THEN [exc |-> "AttributeError", ret |-> NoneVal]
  ELSE IF key \in DOMAIN val.items THEN [exc |-> "", ret |-> val.items[key]]
  ELSE [exc |-> "", ret |-> NoneVal]

\* The exceptions the except clause of parse_json_column names.
ParseCatches == {"JSONDecodeError", "TypeError", "AttributeError"}

parse_json_column(value) ==
  LET loaded == json_loads(value)
      body == IF loaded.exc # "" THEN [exc |-> loaded.exc, ret |-> NoneVal]
              ELSE dict_get(loaded.val, "total_balance")
  IN IF body.exc \in ParseCatches THEN [exc |-> "", ret |-> NoneVal] ELSE body

\* df['total_balance'] = values: a new last column, or the column replaced.
SetColumn(t, c, values) ==
  Table(IF HasColumn(t, c) THEN t.columns ELSE Append(t.columns, c),
        [i \in DOMAIN t.rows |->
           [d \in Range(t.columns) \cup {c} |->
              IF d = c THEN values[i] ELSE t.rows[i][d]]])

\* The extraction step: what it emits, the table it leaves and the
\* exception, if any, that apply() lets through from the first failing row.
Extraction(t) ==
  IF HasColumn(t, POST_TRANSACTION_ACCOUNT_BALANCES)
  THEN LET sub == El("subheader", "extraction",
                     "Parsing 'POST_TRANSACTION_ACCOUNT_BALANCES' to Extract total_balance", <<>>)
           res == [i \in DOMAIN t.rows |->
                     parse_json_column(t.rows[i][POST_TRANSACTION_ACCOUNT_BALANCES])]
           failing == {i \in DOMAIN res : res[i].exc # ""}
       IN IF failing # {}
          THEN [exc |-> res[CHOOSE i \in failing : \A j \in failing : i <= j].exc,
                table |-> t, emits |-> <<sub>>]
          ELSE LET t2 == SetColumn(t, total_balance, [i \in DOMAIN res |-> res[i].ret])
               IN [exc |-> "", table |-> t2,
                   emits |-> <<sub,
                               El("dataframe", "extraction", "",
                                  head([i \in DOMAIN t2.rows |->
                                          <<t2.rows[i][POST_TRANSACTION_ACCOUNT_BALANCES],
                                            t2.rows[i][total_balance]>>], HeadRows))>>]
  ELSE [exc |-> "", table |-> t,
        emits |-> <<El("warning", "extraction",
                       "Column 'POST_TRANSACTION_ACCOUNT_BALANCES' not found.", <<>>)>>]

Extract ==
  /\ pc = "extraction"
  /\ LET r == Extraction(df)
     IN /\ out' = out \o r.emits
        /\ df' = r.table
        /\ exc' = r.exc
        /\ pc' = IF r.exc # "" THEN "crashed" ELSE "chart1"
  /\ UNCHANGED <<file, complete>>

(***************************************************************************)
(* Chart renderers 1-4.                                                    *)
(***************************************************************************)
Chart1Emits(t) ==
  <<El("subheader", "chart1", "1. Distribution of Transaction Amounts", <<>>),
    IF HasColumn(t, TRANSACTION_AMOUNT)
    THEN El("pyplot", "chart1", "Distribution of Transaction Amounts",
            dropna(Column(t, TRANSACTION_AMOUNT)))
    ELSE El("warning", "chart1",
            "Column 'TRANSACTION_AMOUNT' not found. Cannot display Distribution of Transaction Amounts.",
            <<>>)>>

Chart2Emits(t) ==
  <<El("subheader", "chart2", "2. Box Plot of Transaction Amounts by Currency", <<>>),
    IF HasColumn(t, TRANSACTION_AMOUNT) /\ HasColumn(t, CURRENCY_CODE)
    THEN El("pyplot", "chart2", "Transaction Amounts by Currency",
            [i \in DOMAIN t.rows |->
               <<t.rows[i][CURRENCY_CODE], t.rows[i][TRANSACTION_AMOUNT]>>])
    ELSE El("warning", "chart2",
            "Columns 'TRANSACTION_AMOUNT' and/or 'CURRENCY_CODE' not found. Cannot display Box Plot of Transaction Amounts by Currency.",
            <<>>)>>

\* A variant of chart 3 that also asks for the amount column.
Chart3Emits_NeedsAmount(t) ==
  <<El("subheader", "chart3", "3. Top 10 Merchant Category Codes (MCC)", <<>>),
    IF HasColumn(t, MCC) /\ HasColumn(t, TRANSACTION_AMOUNT)
    THEN El("pyplot", "chart3", "Top 10 Merchant Category Codes",
            head(value_counts(Column(t, MCC)), TopN))
    ELSE El("warning", "chart3",
            "Column 'MCC' not found. Cannot display Top 10 MCC visualization.",
            <<>>)>>

Chart3Emits(t) ==
  <<El("subheader", "chart3", "3. Top 10 Merchant Category Codes (MCC)", <<>>),
    IF HasColumn(t, MCC)
    THEN El("pyplot", "chart3", "Top 10 Merchant Category Codes",
            head(value_counts(Column(t, MCC)), TopN))
    ELSE El("warning", "chart3",
            "Column 'MCC' not found. Cannot display Top 10 MCC visualization.",
            <<>>)>>

Chart4Emits(t) ==
  <<El("subheader", "chart4", "4. Scatter Plot: Transaction Amount vs. Total Balance", <<>>),
    IF HasColumn(t, TRANSACTION_AMOUNT) /\ HasColumn(t, total_balance)
    THEN El("pyplot", "chart4", "Transaction Amount vs. Total Balance",
            [i \in DOMAIN t.rows |->
               <<t.rows[i][TRANSACTION_AMOUNT], t.rows[i][total_balance]>>])
    ELSE El("warning", "chart4",
            "Columns 'TRANSACTION_AMOUNT' and/or 'total_balance' not found. Cannot display Scatter Plot.",
            <<>>)>>

Chart1 ==
  /\ pc = "chart1"
  /\ out' = out \o Chart1Emits(df)
  /\ pc' = "chart2"
  /\ UNCHANGED <<file, complete, df, exc>>

Chart2 ==
  /\ pc = "chart2"
  /\ out' = out \o Chart2Emits(df)
  /\ pc' = "chart3"
  /\ UNCHANGED <<file, complete, df, exc>>

Chart3 ==
  /\ pc = "chart3"
  /\ out' = out \o Chart3Emits(df)
  /\ pc' = "chart4"
  /\ UNCHANGED <<file, complete, df, exc>>

Chart4 ==
  /\ pc = "chart4"
  /\ out' = out \o Chart4Emits(df)
  /\ pc' = "chart5"
  /\ UNCHANGED <<file, complete, df, exc>>

(***************************************************************************)
(* Chart renderer 5: the time series.                                      *)
(***************************************************************************)
\* pd.to_datetime on one cell: a missing value becomes NaT, a timestamp
\* text its datetime; any other text raises.
to_datetime_cell(c) ==
  IF IsNA(c) THEN [exc |-> "", ret |-> NaT]
  ELSE IF c.t = "str" /\ c.s \in DOMAIN TimestampText
  THEN [exc |-> "", ret |-> Datetime(TimestampText[c.s])]
  ELSE IF c.t = "num" THEN [exc |-> "", ret |-> Datetime(0)]
  ELSE [exc |-> "DateParseError", ret |-> NaT]

\* pd.to_datetime(series), errors='raise'.
to_datetime(s) ==
  LET res == [i \in DOMAIN s |-> to_datetime_cell(s[i])]
      failing == {i \in DOMAIN res : res[i].exc # ""}
  IN IF failing # {}
     THEN [exc |-> res[CHOOSE i \in failing : \A j \in failing : i <= j].exc,
           ret |-> <<>>]
     ELSE [exc |-> "", ret |-> [i \in DOMAIN res |-> res[i].ret]]

\* Ascending order of sort keys, missing values last.
KeyLeq(a, b) == IsNA(b) \/ (~IsNA(a) /\ a.n <= b.n)

RowOrders(n) ==
  {p \in [1..n -> 1..n] : \A i, j \in 1..n : p[i] = p[j] => i = j}

\* A variant of the sort that loses the rows whose key is missing.
sort_values_DropsMissing(t, c) ==
  LET present == SelectSeq(t.rows, LAMBDA r : ~IsNA(r[c]))
  IN {Table(t.columns, [i \in DOMAIN present |-> present[p[i]]]) :
        p \in {q \in RowOrders(Len(present)) :
                 \A i, j \in DOMAIN present :
                    i < j => KeyLeq(present[q[i]][c], present[q[j]][c])}}

\* df.sort_values(c): the orders of the rows the sort may leave.  The
\* default sort is not stable, so rows with equal keys may end in any
\* order.
sort_values(t, c) ==
  {Table(t.columns, [i \in DOMAIN t.rows |-> t.rows[p[i]]]) :
     p \in {q \in RowOrders(Len(t.rows)) :
              \A i, j \in DOMAIN t.rows :
                 i < j => KeyLeq(t.rows[q[i]][c], t.rows[q[j]][c])}}

\* A variant of the daily frequency that buckets by the hour.
Day_Hourly(h) == h

Day(h) == h \div HoursPerDay

RECURSIVE SumAmounts(_)
SumAmounts(rows) ==
  IF rows = <<>> THEN 0
  ELSE rows[1][TRANSACTION_AMOUNT].n + SumAmounts(Tail(rows))

\* df[['TIMESTAMP', 'TRANSACTION_AMOUNT']].dropna()
TimeSeriesRows(t) ==
  SelectSeq(t.rows, LAMBDA r : ~IsNA(r[TIMESTAMP]) /\ ~IsNA(r[TRANSACTION_AMOUNT]))

\* set_index('TIMESTAMP').resample('D').sum(): one bucket for every day
\* from the first to the last day present, holding the sum of the amounts
\* of that day's rows.
resample_D_sum(rows) ==
  IF rows = <<>> THEN <<>>
  ELSE LET days == {Day(rows[i][TIMESTAMP].n) : i \in DOMAIN rows}
           lo == CHOOSE d \in days : \A e \in days : d <= e
           hi == CHOOSE d \in days : \A e \in days : d >= e
       IN [d \in lo..hi |->
             SumAmounts(SelectSeq(rows, LAMBDA r : Day(r[TIMESTAMP].n) = d))]

Chart5Subheader == El("subheader", "chart5", "5. Time Series of Transaction Amounts", <<>>)

Chart5Guard(t) == HasColumn(t, TRANSACTION_AMOUNT) /\ HasColumn(t, TIMESTAMP)

\* The body of the try block on the table t: the exception it raises, or
\* the tables it may leave and, for each, the line chart.
Chart5Try(t) ==
  LET conv == to_datetime(Column(t, TIMESTAMP))
  IN IF conv.exc # "" THEN [exc |-> conv.exc, results |-> {}]
     ELSE [exc |-> "",
           results |->
             {[table |-> sorted,
               chart |-> El("line_chart", "chart5", "",
                            resample_D_sum(TimeSeriesRows(sorted)))] :
                sorted \in sort_values(SetColumn(t, TIMESTAMP, conv.ret), TIMESTAMP)}]

\* A variant of the panel whose except clause reports nothing.
Chart5Outcomes_SilentExcept(t) ==
  IF Chart5Guard(t)
  THEN LET try == Chart5Try(t)
       IN IF try.exc # ""
          THEN {[table |-> t, emits |-> <<Chart5Subheader>>]}
          ELSE {[table |-> r.table, emits |-> <<Chart5Subheader, r.chart>>] :
                  r \in try.results}
  ELSE {[table |-> t,
         emits |-> <<Chart5Subheader,
                     El("warning", "chart5",
                        "Columns 'TRANSACTION_AMOUNT' and/or 'TIMESTAMP' not found. Cannot display Time Series of Transaction Amounts.",
                        <<>>)>>]}

\* The outcomes of the panel on the table t: the elements emitted and the
\* table left.
Chart5Outcomes(t) ==
  IF Chart5Guard(t)
  THEN LET try == Chart5Try(t)
       IN IF try.exc # ""
          THEN {[table |-> t,
                 emits |-> <<Chart5Subheader,
                             El("error", "chart5", "Error processing TIMESTAMP column: ...", <<>>)>>]}
          ELSE {[table |-> r.table, emits |-> <<Chart5Subheader, r.chart>>] :
                  r \in try.results}
  ELSE {[table |-> t,
         emits |-> <<Chart5Subheader,
                     El("warning", "chart5",
                        "Columns 'TRANSACTION_AMOUNT' and/or 'TIMESTAMP' not found. Cannot display Time Series of Transaction Amounts.",
                        <<>>)>>]}

Chart5 ==
  /\ pc = "chart5"
  /\ \E r \in Chart5Outcomes(df) :
        /\ df' = r.table
        /\ out' = out \o r.emits
  /\ pc' = "done"
  /\ UNCHANGED <<file, complete, exc>>

Next ==
  \/ PageHeader \/ LoadData \/ NoDataLoaded
  \/ Preview \/ Info \/ Describe \/ Currency \/ Extract
  \/ Chart1 \/ Chart2 \/ Chart3 \/ Chart4 \/ Chart5

Spec == Init /\ [][Next]_vars

(***************************************************************************)
(* The chart panels of a whole render pass as a function of the input      *)
(* file: what panels 1-5 emit, or nothing when the script stops before     *)
(* them.                                                                   *)
(***************************************************************************)
RenderCharts(f) ==
  LET loaded == load_data(f)
      ext == Extraction(loaded.ret)
  IN IF loaded.exc # "" \/ loaded.ret.isNone
     THEN [exc |-> loaded.exc, charts |-> [k \in 1..5 |-> <<>>]]
     ELSE IF ext.exc # ""
     THEN [exc |-> ext.exc, charts |-> [k \in 1..5 |-> <<>>]]
     ELSE [exc |-> "",
           charts |-> [k \in 1..5 |->
                         CASE k = 1 -> Chart1Emits(ext.table)
                           [] k = 2 -> Chart2Emits(ext.table)
                           [] k = 3 -> Chart3Emits(ext.table)
                           [] k = 4 -> Chart4Emits(ext.table)
                           [] k = 5 -> (CHOOSE r \in Chart5Outcomes(ext.table) : TRUE).emits]]

(***************************************************************************)
(* Vocabulary of the properties.                                           *)
(***************************************************************************)
Panels == {"preview", "info", "describe", "currency", "extraction",
           "chart1", "chart2", "chart3", "chart4", "chart5"}

ChartPanel == [k \in 1..5 |->
                 CASE k = 1 -> "chart1" [] k = 2 -> "chart2" [] k = 3 -> "chart3"
                   [] k = 4 -> "chart4" [] k = 5 -> "chart5"]

PanelOut(o, p) == SelectSeq(o, LAMBDA e : e.panel = p)

OfKind(o, kind) == SelectSeq(o, LAMBDA e : e.kind = kind)

\* Equality of two emitted sequences, kinds and texts first.
SameEmits(a, b) ==
  /\ Len(a) = Len(b)
  /\ \A i \in DOMAIN a :
        /\ a[i].kind = b[i].kind
        /\ a[i].panel = b[i].panel
        /\ a[i].text = b[i].text
        /\ a[i].data = b[i].data

AfterLoad == pc \notin {"start", "load"}

Loaded == read_csv(file)

\* The column removed from the complete input ("" when none is).
Removed ==
  IF file.status = "ok" /\ Len(file.header) < Len(complete.header)
  THEN CHOOSE c \in Range(complete.header) : c \notin Range(file.header)
  ELSE ""

(***************************************************************************)
(* C1: with a missing file load_data returns None, and whenever it returns *)
(* None no panel emits anything: the page holds only the page header and   *)
(* error messages of the loader and of the "No data loaded" branch.        *)
(***************************************************************************)
C1_MissingFileNoPanel ==
  AfterLoad =>
    /\ file.status = "missing" => df.isNone /\ pc \in {"nodata", "done"}
    /\ df.isNone =>
         /\ pc \in {"nodata", "done", "crashed"}
         /\ \A i \in DOMAIN out : out[i].panel \notin Panels

C1_Witness ==
  /\ file.status = "missing"
  /\ pc = "done"
  /\ df.isNone
  /\ Len(out) = 4

(***************************************************************************)
(* C2 as stated: a render pass that ends after a load-time failure has     *)
(* emitted exactly one error message.                                      *)
(***************************************************************************)
C2_SingleMessage ==
  (file.status # "ok" /\ pc = "done") => Len(OfKind(out, "error")) = 1

(***************************************************************************)
(* C2 amended: a load-time failure halts the render before any panel.      *)
(* When load_data catches the failure (missing file, ParserError) the page *)
(* carries exactly two error messages, the loader's and then "No data      *)
(* loaded"; when the exception leaves load_data the script stops with no   *)
(* error message emitted.                                                  *)
(***************************************************************************)
C2_TwoMessages ==
  (file.status # "ok" /\ pc \in {"done", "crashed"}) =>
    /\ \A i \in DOMAIN out : out[i].panel \notin Panels
    /\ LET errors == OfKind(out, "error")
       IN IF file.status \in {"missing", "parser_error"}
          THEN /\ pc = "done"
               /\ Len(errors) = 2
               /\ errors[1].panel = "load_data"
               /\ errors[2].panel = "nodata"
          ELSE /\ pc = "crashed"
               /\ errors = <<>>

C2_Witness ==
  /\ file.status = "parser_error"
  /\ pc = "done"
  /\ Len(OfKind(out, "error")) = 2

(***************************************************************************)
(* C3 as stated: on every value of the balances column parse_json_column   *)
(* raises nothing and returns the value under "total_balance" when the     *)
(* value is a text that decodes to a JSON object, None otherwise.          *)
(***************************************************************************)
C3_Expected(v) ==
  IF v.t = "str" /\ v.s = JsonBalance THEN Num(42) ELSE NoneVal

C3_NeverPropagates ==
  (pc = "extraction" /\ HasColumn(df, POST_TRANSACTION_ACCOUNT_BALANCES)) =>
    \A i \in DOMAIN df.rows :
       LET v == df.rows[i][POST_TRANSACTION_ACCOUNT_BALANCES]
           r == parse_json_column(v)
       IN /\ r.exc = ""
          /\ r.ret = C3_Expected(v)

\* The part of C3 that holds: apart from raising on some texts, the
\* returned value is the one stated.
C3_ReturnsAsStated ==
  (pc = "extraction" /\ HasColumn(df, POST_TRANSACTION_ACCOUNT_BALANCES)) =>
    \A i \in DOMAIN df.rows :
       LET v == df.rows[i][POST_TRANSACTION_ACCOUNT_BALANCES]
           r == parse_json_column(v)
       IN r.exc = "" => r.ret = C3_Expected(v)

(***************************************************************************)
(* C8 as stated: after every load-time failure load_data has emitted a     *)
(* message and returned None, and the script has not been stopped by an    *)
(* exception.                                                              *)
(***************************************************************************)
C8_EveryFailureReturnsNone ==
  (file.status # "ok" /\ AfterLoad) =>
    /\ pc # "crashed"
    /\ df.isNone
    /\ PanelOut(out, "load_data") # <<>>

(***************************************************************************)
(* C9 as stated: the loaded table has one row for every data line whose    *)
(* field count equals the header's, and no other row.                      *)
(***************************************************************************)
C9_RowCountIsValidLines ==
  (file.status = "ok" /\ AfterLoad) =>
    Len(df.rows) = Cardinality({k \in DOMAIN file.lines :
                                  Len(file.lines[k]) = Len(file.header)})

(***************************************************************************)
(* The columns each chart panel tests for, as the source lists them.       *)
(***************************************************************************)
ChartNeeds == [k \in 1..5 |->
                 CASE k = 1 -> {TRANSACTION_AMOUNT}
                   [] k = 2 -> {TRANSACTION_AMOUNT, CURRENCY_CODE}
                   [] k = 3 -> {MCC}
                   [] k = 4 -> {TRANSACTION_AMOUNT, total_balance}
                   [] k = 5 -> {TRANSACTION_AMOUNT, TIMESTAMP}]

IsWarningPanel(es) ==
  /\ Len(es) = 2
  /\ es[1].kind = "subheader"
  /\ es[2].kind = "warning"

IsRenderedPanel(es) ==
  /\ Len(es) = 2
  /\ es[1].kind = "subheader"
  /\ es[2].kind \in {"pyplot", "line_chart", "error"}

OneColumnRemoved == file.status = "ok" /\ Removed # ""

(***************************************************************************)
(* C4 as stated, on inputs whose complete render reaches the charts: with  *)
(* one documented column removed exactly one chart panel is replaced by    *)
(* its warning and the other four emit what they emit on the complete      *)
(* input.                                                                  *)
(***************************************************************************)
C4_OneColumnOnePanel ==
  (OneColumnRemoved /\ pc = "done" /\ RenderCharts(complete).exc = "") =>
    LET ref == RenderCharts(complete).charts
        disabled == {k \in 1..5 : IsWarningPanel(PanelOut(out, ChartPanel[k]))}
    IN /\ Cardinality(disabled) = 1
       /\ \A k \in (1..5) \ disabled : SameEmits(PanelOut(out, ChartPanel[k]), ref[k])

(***************************************************************************)
(* C4 amended: with one documented column removed from an input that has   *)
(* exactly the five documented columns, the chart panels replaced by their *)
(* warning are those that need the column: chart 2 for CURRENCY_CODE,      *)
(* chart 3 for MCC, chart 4 for POST_TRANSACTION_ACCOUNT_BALANCES (through *)
(* total_balance), chart 5 for TIMESTAMP, and charts 1, 2, 4 and 5 for     *)
(* TRANSACTION_AMOUNT.  Every other chart panel emits what it emits on the *)
(* complete input; when the extraction step raises on the complete input   *)
(* that render has no chart panel at all, and the render without the       *)
(* balances column, which skips the extraction, still renders charts 1, 2, *)
(* 3 and 5.                                                                *)
(***************************************************************************)
C4_DependentPanelsOnly ==
  (OneColumnRemoved /\ pc \in {"done", "crashed"}) =>
    LET ref == RenderCharts(complete)
        needs(k) == IF Removed = POST_TRANSACTION_ACCOUNT_BALANCES
                    THEN total_balance \in ChartNeeds[k]
                    ELSE Removed \in ChartNeeds[k]
    IN \A k \in 1..5 :
         LET got == PanelOut(out, ChartPanel[k])
         IN IF pc = "crashed"
            THEN got = <<>> /\ ref.exc # "" /\ ref.charts[k] = <<>>
            ELSE IF needs(k) THEN IsWarningPanel(got)
            ELSE IF ref.exc = "" THEN SameEmits(got, ref.charts[k])
            ELSE /\ Removed = POST_TRANSACTION_ACCOUNT_BALANCES
                 /\ IsRenderedPanel(got)

C4_Witness ==
  /\ OneColumnRemoved
  /\ Removed = TRANSACTION_AMOUNT
  /\ pc = "done"
  /\ Len(df.rows) = MaxRows
  /\ \A k \in {1, 2, 4, 5} : IsWarningPanel(PanelOut(out, ChartPanel[k]))
  /\ IsRenderedPanel(PanelOut(out, "chart3"))

(***************************************************************************)
(* C5: a column-gated panel (the currency panel, charts 1-5) that runs on  *)
(* a table lacking a column it tests for emits its warning (the charts     *)
(* after their subheader) and nothing else, leaves the table unchanged,    *)
(* raises nothing, and the script goes on to the next panel.               *)
(***************************************************************************)
GatedNeeds == [p \in {"currency", "chart1", "chart2", "chart3", "chart4", "chart5"} |->
                 CASE p = "currency" -> {CURRENCY_CODE}
                   [] p = "chart1" -> ChartNeeds[1]
                   [] p = "chart2" -> ChartNeeds[2]
                   [] p = "chart3" -> ChartNeeds[3]
                   [] p = "chart4" -> ChartNeeds[4]
                   [] p = "chart5" -> ChartNeeds[5]]

GatedNext == [p \in DOMAIN GatedNeeds |->
                CASE p = "currency" -> "extraction"
                  [] p = "chart1" -> "chart2"
                  [] p = "chart2" -> "chart3"
                  [] p = "chart3" -> "chart4"
                  [] p = "chart4" -> "chart5"
                  [] p = "chart5" -> "done"]

C5_MissingColumnWarns ==
  [][(pc \in DOMAIN GatedNeeds /\ \E c \in GatedNeeds[pc] : ~HasColumn(df, c)) =>
       /\ df' = df
       /\ exc' = ""
       /\ pc' = GatedNext[pc]
       /\ Len(out') > Len(out)
       /\ SubSeq(out', 1, Len(out)) = out
       /\ LET new == SubSeq(out', Len(out) + 1, Len(out'))
          IN /\ \A i \in DOMAIN new :
                   new[i].panel = pc /\ new[i].kind \in {"subheader", "warning"}
             /\ Len(OfKind(new, "warning")) = 1]_vars

C5_Witness ==
  /\ pc = "done"
  /\ ~HasColumn(df, MCC)
  /\ IsWarningPanel(PanelOut(out, "chart3"))
  /\ IsRenderedPanel(PanelOut(out, "chart4"))

(***************************************************************************)
(* C6: when the time series is drawn it has one bucket for every calendar  *)
(* day from the first to the last day on which the file has a row with     *)
(* both a timestamp and an amount, and each bucket is the sum of the       *)
(* amounts of the rows of that day, whatever the order of the rows in the  *)
(* file; so two rows of one day with amounts 10 and 5 give one bucket of   *)
(* 15.                                                                     *)
(***************************************************************************)
\* The calendar day (days since 2024-01-01) of each timestamp text.
C6_CalendarDay == [x \in DOMAIN TimestampText |->
                     CASE x = "2024-01-01 08:00" -> 0
                       [] x = "2024-01-01 20:00" -> 0
                       [] x = "2024-01-03 08:00" -> 2]

RECURSIVE C6_SumOver(_, _)
C6_SumOver(rows, idx) ==
  IF idx = {} THEN 0
  ELSE LET i == CHOOSE j \in idx : TRUE
       IN rows[i][TRANSACTION_AMOUNT].n + C6_SumOver(rows, idx \ {i})

C6_DailyBucketsAreDaySums ==
  (pc = "done" /\ OfKind(PanelOut(out, "chart5"), "line_chart") # <<>>) =>
    LET buckets == OfKind(PanelOut(out, "chart5"), "line_chart")[1].data
        rows == Loaded.rows
        counted == {i \in DOMAIN rows :
                      /\ rows[i][TIMESTAMP].t = "str"
                      /\ rows[i][TRANSACTION_AMOUNT].t = "num"}
        dayOf(i) == C6_CalendarDay[rows[i][TIMESTAMP].s]
        days == {dayOf(i) : i \in counted}
    IN /\ Len(OfKind(PanelOut(out, "chart5"), "line_chart")) = 1
       /\ DOMAIN buckets =
            {d \in 0..2 : \E a, b \in days : a <= d /\ d <= b}
       /\ \A d \in DOMAIN buckets :
            buckets[d] = C6_SumOver(rows, {i \in counted : dayOf(i) = d})

C6_Witness ==
  /\ pc = "done"
  /\ OfKind(PanelOut(out, "chart5"), "line_chart") # <<>>
  /\ Len(df.rows) = 2
  /\ df.rows[1][TIMESTAMP].n # df.rows[2][TIMESTAMP].n
  /\ LET buckets == OfKind(PanelOut(out, "chart5"), "line_chart")[1].data
     IN DOMAIN buckets = {0} /\ buckets[0] = 15

(***************************************************************************)
(* C7 as stated: after a whole successful pass the table is the loaded     *)
(* table with the total_balance column added and its rows reordered: every *)
(* loaded column, TIMESTAMP included, holds the values it held after       *)
(* loading.                                                                *)
(***************************************************************************)
C7_RowLike(r, l, convertTimestamp) ==
  /\ \A c \in DOMAIN l :
        r[c] = IF c = TIMESTAMP /\ convertTimestamp
               THEN to_datetime_cell(l[c]).ret
               ELSE l[c]
  /\ total_balance \in DOMAIN r =>
        r[total_balance] = parse_json_column(l[POST_TRANSACTION_ACCOUNT_BALANCES]).ret

C7_ColumnsAfterExtraction(loaded) ==
  IF HasColumn(loaded, POST_TRANSACTION_ACCOUNT_BALANCES)
  THEN Append(loaded.columns, total_balance)
  ELSE loaded.columns

\* t holds the rows of loaded in the order p, total_balance added.
C7_SameRows(t, loaded, p, convertTimestamp) ==
  /\ t.columns = C7_ColumnsAfterExtraction(loaded)
  /\ Len(t.rows) = Len(loaded.rows)
  /\ \A i \in DOMAIN t.rows :
        /\ DOMAIN t.rows[i] = Range(t.columns)
        /\ C7_RowLike(t.rows[i], loaded.rows[p[i]], convertTimestamp)

C7_Reordered(t, loaded, convertTimestamp) ==
  \E p \in RowOrders(Len(loaded.rows)) : C7_SameRows(t, loaded, p, convertTimestamp)

C7_InFileOrder(t, loaded) ==
  C7_SameRows(t, loaded, [i \in DOMAIN loaded.rows |-> i], FALSE)

C10_Unparseable ==
  \E i \in DOMAIN Loaded.rows :
     /\ Loaded.rows[i][TIMESTAMP].t = "str"
     /\ Loaded.rows[i][TIMESTAMP].s \notin DOMAIN TimestampText

C10_ErrorOrChart ==
  /\ pc = "crashed" => PanelOut(out, "chart5") = <<>>
  /\ (pc = "done" /\ file.status = "ok"
        /\ {TRANSACTION_AMOUNT, TIMESTAMP} \subseteq Range(file.header)) =>
       LET panel == PanelOut(out, "chart5")
           nErr == Len(OfKind(panel, "error"))
           nLine == Len(OfKind(panel, "line_chart"))
       IN /\ OfKind(panel, "warning") = <<>>
          /\ IF C10_Unparseable THEN nErr = 1 /\ nLine = 0
             ELSE nErr = 0 /\ nLine = 1

C10_Witness ==
  /\ pc = "done"
  /\ Len(df.rows) = 2
  /\ Len(OfKind(PanelOut(out, "chart5"), "error")) = 1
  /\ IsRenderedPanel(PanelOut(out, "chart4"))

====
